---- MODULE Spec2Model ----
(***************************************************************************)
(* Model of monitor.py: the hourly fetch -> diff -> notify -> persist      *)
(* cycle of the YouTube milestone monitor.                                 *)
(*                                                                         *)
(* Records keep the fields the control flow reads (ids, counts, the        *)
(* twitter_enabled flag, the playlist id); title, url and timestamp only   *)
(* appear inside message texts and are left out.  A message is modelled    *)
(* by the sink it goes to, its kind and the (id, threshold) it names.      *)
(***************************************************************************)
EXTENDS Integers, Sequences, FiniteSets, TLC

\* ------------------------------------------------------------------ bounds
\* Largest subscriber / view count the API returns in the model.
MaxCount == 2

\* ------------------------------------------------------- input universes
VideoIds == {"v1", "v2"}

\* What playlistItems can list for one playlist in one cycle.
PlaylistContents == {<<>>, <<"v1">>, <<"v2">>}

\* config.json variants (read by main at line 222).
cfgVideos ==
  [channels |-> <<>>,
   playlists |-> << [id |-> "p1", twitter_enabled |-> TRUE],
                    [id |-> "p2", twitter_enabled |-> FALSE] >>,
   subscriber_thresholds |-> <<1>>,
   view_thresholds |-> <<1, 2>>]

cfgChannels ==
  [channels |-> << [id |-> "c1", twitter_enabled |-> TRUE],
                   [id |-> "c2", twitter_enabled |-> FALSE] >>,
   playlists |-> <<>>,
   subscriber_thresholds |-> <<2, 1>>,
   view_thresholds |-> <<1>>]

cfgMixed ==
  [channels |-> << [id |-> "c1", twitter_enabled |-> TRUE] >>,
   playlists |-> << [id |-> "p1", twitter_enabled |-> FALSE] >>,
   subscriber_thresholds |-> <<2, 2>>,
   view_thresholds |-> <<1>>]

Configs == {cfgVideos, cfgChannels, cfgMixed}

\* API answers: "items" empty (no such entity / no statistics) or one item.
ChannelResponses ==
  {[items |-> 0, subscriberCount |-> 0]} \cup
  {[items |-> 1, subscriberCount |-> n] : n \in 0..MaxCount}

VideoResponses ==
  {[items |-> 0, viewCount |-> 0]} \cup
  {[items |-> 1, viewCount |-> n] : n \in 0..MaxCount}

\* ------------------------------------------------------------- variables
VARIABLES
  cfg,        \* the configuration of this run
  disk,       \* /app/data/data.json
  pc,         \* where the process is
  mode,       \* branch taken by the running cycle: "NONE", "INITIAL", "STEADY"
  prev,       \* prev_data of the running cycle
  curr_ch,    \* curr_ch of the running cycle
  curr_vd,    \* curr_vd of the running cycle
  plan,       \* the sink calls compare_and_notify makes, in call order
  nsent,      \* how many of them have returned
  sinkError,  \* some sink call of this cycle returned a non-success status
  crossed,    \* history: milestones dispatched in cycles that completed
  started,    \* the direct call of main at line 268 has been made
  due,        \* an hour mark has passed that the scheduled job has not run for
  active,     \* number of executions of main in progress
  redo,       \* history: calls that returned in the cycle a sink exception just ended
  redone,     \* history: compare_and_notify just planned one of those calls again
  emptied     \* history: the last completed cycle was STEADY and saved nothing

vars == <<cfg, disk, pc, mode, prev, curr_ch, curr_vd, plan, nsent,
          sinkError, crossed, started, due, active, redo, redone, emptied>>

\* ----------------------------------------------------------- persistence
MissingFile == [st |-> "missing", channels |-> <<>>, videos |-> <<>>]
CorruptFile == [st |-> "corrupt", channels |-> <<>>, videos |-> <<>>]
EmptyDict   == [has_keys |-> FALSE, channels |-> <<>>, videos |-> <<>>]

\* Variant: whatever the file holds is taken as the snapshot.
load_json_IgnoresState(file) ==
  [has_keys |-> TRUE, channels |-> file.channels, videos |-> file.videos]

\* load_json: the parsed file, or {} when it is missing or does not parse.
\* has_keys tells {} from a dict whose lists are empty; .get(key) and
\* .get(key, []) read a missing key as an empty list.
load_json(file) ==
  IF file.st = "ok"
    THEN [has_keys |-> TRUE, channels |-> file.channels, videos |-> file.videos]
    ELSE EmptyDict

\* Variant: videos of the previous snapshot that were not fetched are kept.
save_json_KeepsStale(ch, vd) ==
  LET stale(r) == \A i \in 1..Len(vd) : vd[i].video_id # r.video_id
  IN [st |-> "ok", channels |-> ch, videos |-> vd \o SelectSeq(prev.videos, stale)]

\* save_json: whole-file overwrite with the given dict.
save_json(ch, vd) == [st |-> "ok", channels |-> ch, videos |-> vd]

\* Variant: only a dict without the keys counts as the first run.
IsInitialRun_KeysMissing(p) == ~p.has_keys

\* Variant: only the channels are looked at.
IsInitialRun_ChannelsOnly(p) == p.channels = <<>>

\* main, line 237: not prev_data.get("channels") and not prev_data.get("videos")
IsInitialRun(p) == p.channels = <<>> /\ p.videos = <<>>

\* ---------------------------------------------------------------- fetch
fetch_video_view_count(resp) ==
  IF resp.items = 0 THEN 0 ELSE resp.viewCount

fetch_channel_info(ch, resp) ==
  [channel_id |-> ch.id,
   subscriber_count |-> IF resp.items = 0 THEN 0 ELSE resp.subscriberCount,
   twitter_enabled |-> ch.twitter_enabled]

\* items: sequence of [videoId, stats] in playlist order.
fetch_playlist_videos(pl, items) ==
  [i \in 1..Len(items) |->
     [video_id |-> items[i].videoId,
      view_count |-> fetch_video_view_count(items[i].stats),
      playlist_id |-> pl.id,
      twitter_enabled |-> pl.twitter_enabled]]

PlaylistItems ==
  UNION { {[i \in 1..Len(c) |-> [videoId |-> c[i], stats |-> s[i]]] :
             s \in [1..Len(c) -> VideoResponses]} : c \in PlaylistContents }

RECURSIVE Concat(_)
Concat(ss) == IF ss = <<>> THEN <<>> ELSE Head(ss) \o Concat(Tail(ss))

\* main, lines 239-246 / 252-259.
FetchChannels(c, resps) ==
  [i \in 1..Len(c.channels) |-> fetch_channel_info(c.channels[i], resps[i])]

FetchVideos(c, lists) ==
  Concat([i \in 1..Len(c.playlists) |->
            fetch_playlist_videos(c.playlists[i], lists[i])])

\* ---------------------------------------------------- compare_and_notify
\* dict.get(key, 0) on {r[idf]: r[valf] for r in recs}: the last record of
\* a key wins.
MapGet(recs, idf, valf, key) ==
  LET hits == {i \in 1..Len(recs) : recs[i][idf] = key}
  IN IF hits = {} THEN 0
     ELSE recs[CHOOSE i \in hits : \A j \in hits : j <= i][valf]

\* lines 172-173
prev_ch_map(p, id) == MapGet(p.channels, "channel_id", "subscriber_count", id)
prev_vid_map(p, id) == MapGet(p.videos, "video_id", "view_count", id)

\* lines 176-177
prev_ids(p) == {p.videos[i].video_id : i \in 1..Len(p.videos)}
curr_ids(vd) == {vd[i].video_id : i \in 1..Len(vd)}

\* Variants: the difference is forgotten.
AddedIds_NoDiff(p, vd) == curr_ids(vd)
RemovedIds_NoDiff(p, vd) == prev_ids(p)

\* lines 178, 183: the two set differences the loops iterate over.
AddedIds(p, vd) == curr_ids(vd) \ prev_ids(p)
RemovedIds(p, vd) == prev_ids(p) \ curr_ids(vd)

\* Variant: the lower comparison is not strict.
Crosses_LowerInclusive(prev_cnt, thr, curr_cnt) == prev_cnt <= thr /\ thr <= curr_cnt

\* line 193 / 208
Crosses(prev_cnt, thr, curr_cnt) == prev_cnt < thr /\ thr <= curr_cnt

Msg(sink, kind, id, thr) ==
  [sink |-> sink, kind |-> kind, id |-> id, thr |-> thr]

\* lines 199-201 / 214-216: Discord, then Twitter when the record asks for it.
MilestoneCalls(kind, id, thr, tw) ==
  <<Msg("discord", kind, id, thr)>> \o
  (IF tw THEN <<Msg("twitter", kind, id, thr)>> ELSE <<>>)

\* Variant: a new video is also announced on Twitter.
NewVideoCalls_Tweeted(order) ==
  Concat([i \in 1..Len(order) |->
            <<Msg("discord", "new", order[i], 0), Msg("twitter", "new", order[i], 0)>>])

\* lines 178-182 / 183-186, for one iteration order of the set.
NewVideoCalls(order) ==
  [i \in 1..Len(order) |-> Msg("discord", "new", order[i], 0)]

RemovedCalls(order) ==
  [i \in 1..Len(order) |-> Msg("discord", "removed", order[i], 0)]

\* lines 189-201
ChannelCalls(p, ch, c) ==
  Concat([i \in 1..Len(ch) |->
    Concat([j \in 1..Len(c.subscriber_thresholds) |->
      IF Crosses(prev_ch_map(p, ch[i].channel_id),
                 c.subscriber_thresholds[j], ch[i].subscriber_count)
        THEN MilestoneCalls("sub", ch[i].channel_id,
                            c.subscriber_thresholds[j], ch[i].twitter_enabled)
        ELSE <<>>])])

\* lines 204-216
VideoCalls(p, vd, c) ==
  Concat([i \in 1..Len(vd) |->
    Concat([j \in 1..Len(c.view_thresholds) |->
      IF Crosses(prev_vid_map(p, vd[i].video_id),
                 c.view_thresholds[j], vd[i].view_count)
        THEN MilestoneCalls("view", vd[i].video_id,
                            c.view_thresholds[j], vd[i].twitter_enabled)
        ELSE <<>>])])

\* The orders in which Python may iterate a set of ids.
Orders(S) ==
  {o \in [1..Cardinality(S) -> S] : \A x \in S : \E i \in DOMAIN o : o[i] = x}

\* Variant: the threshold loops run before the added / removed loops.
compare_and_notify_ViewsFirst(p, ch, vd, c, addOrder, remOrder) ==
  ChannelCalls(p, ch, c) \o VideoCalls(p, vd, c) \o
  NewVideoCalls(addOrder) \o RemovedCalls(remOrder)

\* All sink calls of one compare_and_notify, in call order.
compare_and_notify(p, ch, vd, c, addOrder, remOrder) ==
  NewVideoCalls(addOrder) \o RemovedCalls(remOrder) \o
  ChannelCalls(p, ch, c) \o VideoCalls(p, vd, c)

\* The calls that have returned so far in the running cycle.
sent == SubSeq(plan, 1, nsent)

\* ------------------------------------------------------------------ Init
Init ==
  /\ cfg \in Configs
  /\ disk = MissingFile
  /\ pc = "idle"
  /\ mode = "NONE"
  /\ prev = EmptyDict
  /\ curr_ch = <<>>
  /\ curr_vd = <<>>
  /\ plan = <<>>
  /\ nsent = 0
  /\ sinkError = FALSE
  /\ crossed = {}
  /\ started = FALSE
  /\ due = FALSE
  /\ active = 0
  /\ redo = {}
  /\ redone = FALSE
  /\ emptied = FALSE

\* --------------------------------------------------------------- actions
\* Variant: the scheduler fires the job from a thread of its own.
CanStartCycle_Threaded == ~started \/ due

\* Lines 268-271: main is called once at start, then by run_pending, which
\* the loop calls only between two calls of main.
CanStartCycle == pc = "idle" /\ (~started \/ due)

\* The clock passes an hour mark: the job registered at line 267 is due.
HourPasses ==
  /\ started
  /\ ~due
  /\ pc \notin {"crashed_fetch", "crashed_sink", "crashed_save"}
  /\ due' = TRUE
  /\ UNCHANGED <<cfg, disk, pc, mode, prev, curr_ch, curr_vd, plan, nsent,
                 sinkError, crossed, started, active, redo, redone, emptied>>

\* main, lines 233-246 (initial) and 251-259 (normal): load the previous
\* snapshot and fetch everything.  The branch is decided before the fetch.
MainLoadAndFetch ==
  /\ CanStartCycle
  /\ \E resps \in [1..Len(cfg.channels) -> ChannelResponses],
        lists \in [1..Len(cfg.playlists) -> PlaylistItems] :
       LET p  == load_json(disk)
           ch == FetchChannels(cfg, resps)
           vd == FetchVideos(cfg, lists)
       IN /\ prev' = p
          /\ curr_ch' = ch
          /\ curr_vd' = vd
          /\ IF IsInitialRun(p)
               THEN /\ mode' = "INITIAL"
                    /\ pc' = "save"
                    /\ plan' = <<>>
                    /\ redone' = FALSE
               ELSE /\ mode' = "STEADY"
                    /\ pc' = "notify"
                    /\ \E ao \in Orders(AddedIds(p, vd)),
                          ro \in Orders(RemovedIds(p, vd)) :
                         /\ plan' = compare_and_notify(p, ch, vd, cfg, ao, ro)
                         /\ redone' = (\E k \in 1..Len(plan') : plan'[k] \in redo)
  /\ nsent' = 0
  /\ sinkError' = FALSE
  /\ started' = TRUE
  /\ due' = FALSE
  /\ active' = active + 1
  /\ redo' = {}
  /\ UNCHANGED <<cfg, disk, crossed, emptied>>

\* requests.get raises, resp.json() raises on a malformed body, or an item
\* lacks the keys read at lines 59, 110: nothing catches it, main unwinds.
FetchRaises ==
  /\ CanStartCycle
  /\ pc' = "crashed_fetch"
  /\ mode' = IF IsInitialRun(load_json(disk)) THEN "INITIAL" ELSE "STEADY"
  /\ prev' = load_json(disk)
  /\ started' = TRUE
  /\ due' = FALSE
  /\ active' = active + 1
  /\ redo' = {}
  /\ redone' = FALSE
  /\ UNCHANGED <<cfg, disk, curr_ch, curr_vd, plan, nsent, sinkError, crossed,
                 emptied>>

\* One sink call returns: delivered, or answered with a non-success status
\* (ignored by send_discord_notification, logged by send_twitter_notification).
SinkCallReturns ==
  /\ pc = "notify"
  /\ nsent < Len(plan)
  /\ nsent' = nsent + 1
  /\ \E status_ok \in BOOLEAN : sinkError' = (sinkError \/ ~status_ok)
  /\ redo' = {}
  /\ redone' = FALSE
  /\ UNCHANGED <<cfg, disk, pc, mode, prev, curr_ch, curr_vd, plan, crossed,
                 started, due, active, emptied>>

\* Variant: the snapshot is written on the way out of the exception.
SinkCallRaises_Persisted ==
  /\ pc = "notify"
  /\ nsent < Len(plan)
  /\ pc' = "crashed_sink"
  /\ disk' = [st |-> "ok", channels |-> curr_ch, videos |-> curr_vd]
  /\ redo' = {}
  /\ redone' = FALSE
  /\ UNCHANGED <<cfg, mode, prev, curr_ch, curr_vd, plan, nsent,
                 sinkError, crossed, started, due, active, emptied>>

\* requests.post raises (connection error, timeout): no try/except between
\* the call and the top of the process.
SinkCallRaises ==
  /\ pc = "notify"
  /\ nsent < Len(plan)
  /\ pc' = "crashed_sink"
  /\ redo' = {}
  /\ redone' = FALSE
  /\ UNCHANGED <<cfg, disk, mode, prev, curr_ch, curr_vd, plan, nsent,
                 sinkError, crossed, started, due, active, emptied>>

\* Variant: the snapshot may be written while notifications are pending.
ReadyToSave_Early == pc \in {"save", "notify"}

\* compare_and_notify has returned (or was never called): line 247 / 262.
ReadyToSave ==
  \/ pc = "save"
  \/ pc = "notify" /\ nsent = Len(plan)

SaveSucceeds ==
  /\ ReadyToSave
  /\ disk' = save_json(curr_ch, curr_vd)
  /\ pc' = "done"
  /\ redo' = {}
  /\ redone' = FALSE
  /\ UNCHANGED <<cfg, mode, prev, curr_ch, curr_vd, plan, nsent, sinkError,
                 crossed, started, due, active, emptied>>

\* What json.dump leaves behind when it stops after the channels: a prefix
\* of the JSON text, which does not parse.
TruncatedFile(ch) == [st |-> "corrupt", channels |-> ch, videos |-> <<>>]

\* open(filepath, "w") fails (file untouched) or the write fails after the
\* file was truncated by open (empty file, or a prefix of the new text).
SaveRaises ==
  /\ ReadyToSave
  /\ disk' \in {disk, CorruptFile, TruncatedFile(curr_ch)}
  /\ pc' = "crashed_save"
  /\ redo' = {}
  /\ redone' = FALSE
  /\ UNCHANGED <<cfg, mode, prev, curr_ch, curr_vd, plan, nsent, sinkError,
                 crossed, started, due, active, emptied>>

\* The milestones among the calls made in this cycle.
MilestonesSent ==
  {<<sent[i].kind, sent[i].id, sent[i].thr>> :
     i \in {n \in 1..nsent : sent[n].sink = "discord" /\ sent[n].kind \in {"sub", "view"}}}

\* main returns to the scheduler loop (lines 269-271).  Whether an hour
\* mark passed during the cycle still counts as due is the schedule
\* library's business (it is kept after the direct call of line 268 and
\* dropped when run_pending reschedules the job), so both are allowed.
MainReturns ==
  /\ pc = "done"
  /\ pc' = "idle"
  /\ mode' = "NONE"
  /\ prev' = EmptyDict
  /\ curr_ch' = <<>>
  /\ curr_vd' = <<>>
  /\ plan' = <<>>
  /\ nsent' = 0
  /\ sinkError' = FALSE
  /\ crossed' = crossed \cup MilestonesSent
  /\ active' = active - 1
  /\ due' \in {due, FALSE}
  /\ redo' = {}
  /\ redone' = FALSE
  /\ emptied' = (mode = "STEADY" /\ disk.channels = <<>> /\ disk.videos = <<>>)
  /\ UNCHANGED <<cfg, disk, started>>

\* The uncaught exception ended the process; it is started again and
\* line 268 runs main at once.
ProcessRestarts ==
  /\ pc \in {"crashed_fetch", "crashed_sink", "crashed_save"}
  /\ pc' = "idle"
  /\ mode' = "NONE"
  /\ prev' = EmptyDict
  /\ curr_ch' = <<>>
  /\ curr_vd' = <<>>
  /\ plan' = <<>>
  /\ nsent' = 0
  /\ sinkError' = FALSE
  /\ started' = FALSE
  /\ due' = FALSE
  /\ active' = 0
  /\ redo' = IF pc = "crashed_sink" THEN {sent[i] : i \in 1..nsent} ELSE {}
  /\ redone' = FALSE
  /\ UNCHANGED <<cfg, disk, crossed, emptied>>

Next ==
  \/ MainLoadAndFetch
  \/ FetchRaises
  \/ SinkCallReturns
  \/ SinkCallRaises
  \/ SaveSucceeds
  \/ SaveRaises
  \/ MainReturns
  \/ ProcessRestarts
  \/ HourPasses

Spec == Init /\ [][Next]_vars

TypeOK ==
  /\ cfg \in Configs
  /\ pc \in {"idle", "notify", "save", "done",
             "crashed_fetch", "crashed_sink", "crashed_save"}
  /\ mode \in {"NONE", "INITIAL", "STEADY"}
  /\ nsent \in 0..Len(plan)
  /\ sinkError \in BOOLEAN
  /\ started \in BOOLEAN
  /\ due \in BOOLEAN
  /\ active \in 0..1
  /\ emptied \in BOOLEAN

\* ------------------------------------------------------------ properties
\* compare_and_notify ran to its end in the running cycle.
CompareDone ==
  /\ mode = "STEADY"
  /\ pc \in {"notify", "done", "crashed_save"}
  /\ nsent = Len(plan)

\* The primary-sink messages of one kind naming one id, in dispatch order.
EventsOf(kind, id) ==
  LET match(m) == m.sink = "discord" /\ m.kind = kind /\ m.id = id
  IN SelectSeq(sent, match)

CountOf(kind, id) == Len(EventsOf(kind, id))

ThresholdsOf(kind, id) ==
  LET ev == EventsOf(kind, id) IN [i \in 1..Len(ev) |-> ev[i].thr]

InPrevVideos(v) == \E n \in 1..Len(prev.videos) : prev.videos[n].video_id = v
InCurrVideos(v) == \E i \in 1..Len(curr_vd) : curr_vd[i].video_id = v

\* C1: a cycle whose loaded previous snapshot has no channel and no video
\* never enters compare_and_notify and makes no sink call; when it
\* completes, the file holds exactly what it fetched.
C1_InitialRunSuppression ==
  (pc # "idle" /\ prev.channels = <<>> /\ prev.videos = <<>>) =>
     /\ pc # "notify"
     /\ pc # "crashed_sink"
     /\ plan = <<>>
     /\ nsent = 0
     /\ (pc = "done" => disk = [st |-> "ok", channels |-> curr_ch, videos |-> curr_vd])

C1_Witness ==
  /\ pc = "done"
  /\ mode = "INITIAL"
  /\ prev.has_keys
  /\ \E i \in 1..Len(curr_vd) : curr_vd[i].view_count >= 1

\* C2: a milestone (kind, id, threshold) dispatched in a cycle that
\* completed is never dispatched again in a later cycle.
C2_ExactlyOnceMilestones == MilestonesSent \cap crossed = {}

\* C3: a cycle that fetches exactly what the previous cycle persisted
\* dispatches nothing.
C3_IdempotentPersistence ==
  (mode = "STEADY" /\ pc = "notify" /\ prev.channels = curr_ch /\ prev.videos = curr_vd)
     => plan = <<>>

\* C4: for every current channel record the subscriber milestones
\* dispatched are the configured thresholds t with prevCount < t <=
\* currCount, one event per list entry, in list order; no other subscriber
\* milestone is dispatched.
C4_SubscriberMilestoneRule ==
  CompareDone =>
    /\ \A i \in 1..Len(curr_ch) :
         LET id == curr_ch[i].channel_id
             old == {n \in 1..Len(prev.channels) : prev.channels[n].channel_id = id}
             prevCount == IF old = {} THEN 0
                          ELSE prev.channels[CHOOSE n \in old : TRUE].subscriber_count
             hit(t) == prevCount < t /\ t <= curr_ch[i].subscriber_count
         IN ThresholdsOf("sub", id) = SelectSeq(cfg.subscriber_thresholds, hit)
    /\ \A k \in 1..nsent :
         sent[k].kind = "sub" =>
           \E i \in 1..Len(curr_ch) : curr_ch[i].channel_id = sent[k].id

C4_Witness ==
  /\ pc = "done"
  /\ mode = "STEADY"
  /\ cfg = cfgChannels
  /\ ThresholdsOf("sub", "c1") = <<2, 1>>
  /\ ThresholdsOf("sub", "c2") = <<1>>

\* C5: a video absent from the previous snapshot gets one new-video event
\* and one view milestone per configured threshold t with 0 < t <=
\* viewCount; a video present in it gets exactly the thresholds with
\* prevViewCount < t <= currViewCount.
\* When an id has several records, any of them may supply the counts.
C5_ViewMilestoneRule ==
  CompareDone =>
    \A v \in VideoIds :
      LET now == {i \in 1..Len(curr_vd) : curr_vd[i].video_id = v}
          old == {n \in 1..Len(prev.videos) : prev.videos[n].video_id = v}
      IN now # {} =>
           IF old = {}
             THEN /\ CountOf("new", v) = 1
                  /\ \E i \in now :
                       LET fresh(t) == 0 < t /\ t <= curr_vd[i].view_count
                       IN ThresholdsOf("view", v) = SelectSeq(cfg.view_thresholds, fresh)
             ELSE \E i \in now, n \in old :
                    LET hit(t) == prev.videos[n].view_count < t /\ t <= curr_vd[i].view_count
                    IN ThresholdsOf("view", v) = SelectSeq(cfg.view_thresholds, hit)

\* C6: in a STEADY cycle every video id fetched but absent from the
\* previous snapshot gets exactly one new-video event, however many
\* fetched records carry it, and no other id gets one.
C6_AddedVideoDetection ==
  CompareDone =>
    \A v \in VideoIds :
      CountOf("new", v) = IF InCurrVideos(v) /\ ~InPrevVideos(v) THEN 1 ELSE 0

C6_Witness ==
  /\ pc = "done"
  /\ mode = "STEADY"
  /\ \E i, j \in 1..Len(curr_vd) :
       /\ i # j
       /\ curr_vd[i].video_id = curr_vd[j].video_id
       /\ ~InPrevVideos(curr_vd[i].video_id)
       /\ CountOf("new", curr_vd[i].video_id) = 1

\* C7: in a STEADY cycle every video id of the previous snapshot that was
\* not fetched gets exactly one video-removed event, no other id gets one,
\* and once the cycle has persisted the id is gone from the file.
C7_RemovedVideoDetection ==
  CompareDone =>
    \A v \in VideoIds :
      /\ CountOf("removed", v) = IF InPrevVideos(v) /\ ~InCurrVideos(v) THEN 1 ELSE 0
      /\ (pc = "done" /\ CountOf("removed", v) > 0) =>
           \A n \in 1..Len(disk.videos) : disk.videos[n].video_id # v

C7_Witness ==
  /\ pc = "done"
  /\ mode = "STEADY"
  /\ \E v \in VideoIds :
       /\ InPrevVideos(v)
       /\ ~InCurrVideos(v)
       /\ CountOf("removed", v) = 1
       /\ \A n \in 1..Len(disk.videos) : disk.videos[n].video_id # v

\* C8: a failing sink call never aborts the cycle.
C8_SinkFailureContained == pc # "crashed_sink"

\* C9: a failing fetch never aborts the cycle.
C9_FetchFailureContained == pc # "crashed_fetch"

\* C10: after a cycle that completed, the file holds exactly the channel
\* and video records fetched in that cycle; nothing of the previous
\* snapshot that was not fetched again survives.
C10_SnapshotReflectsLastFetch ==
  pc = "done" =>
    /\ disk.st = "ok"
    /\ disk.channels = curr_ch
    /\ disk.videos = curr_vd
    /\ \A n \in 1..Len(prev.videos) :
         ~InCurrVideos(prev.videos[n].video_id) =>
           \A m \in 1..Len(disk.videos) :
             disk.videos[m].video_id # prev.videos[n].video_id

C10_Witness ==
  /\ pc = "done"
  /\ mode = "STEADY"
  /\ curr_vd # <<>>
  /\ disk.videos = curr_vd
  /\ \E n \in 1..Len(prev.videos) : ~InCurrVideos(prev.videos[n].video_id)

C12_NoPartialSnapshot == disk.st # "corrupt"

\* Every current record of the entity a message names asks for Twitter.
TwitterEnabledFor(m) ==
  IF m.kind = "sub"
    THEN \A i \in 1..Len(curr_ch) :
           curr_ch[i].channel_id = m.id => curr_ch[i].twitter_enabled
    ELSE \A i \in 1..Len(curr_vd) :
           curr_vd[i].video_id = m.id => curr_vd[i].twitter_enabled

\* Some current record of the entity a message names asks for Twitter.
TwitterEnabledSome(m) ==
  IF m.kind = "sub"
    THEN \E i \in 1..Len(curr_ch) :
           curr_ch[i].channel_id = m.id /\ curr_ch[i].twitter_enabled
    ELSE \E i \in 1..Len(curr_vd) :
           curr_vd[i].video_id = m.id /\ curr_vd[i].twitter_enabled

\* Sink calls entered so far: those that returned and the one that raised.
Attempted == nsent + (IF pc = "crashed_sink" THEN 1 ELSE 0)

\* C13: a Twitter call is made only for an entity with twitter_enabled and
\* right after the Discord call with the same message; and once the
\* Discord call of a milestone of such an entity has been made, however it
\* ended, the Twitter call with the same message is made next.
C13_SecondarySinkGating ==
  mode = "STEADY" =>
    /\ \A k \in 1..Len(plan) :
         plan[k].sink = "twitter" =>
           /\ TwitterEnabledSome(plan[k])
           /\ k > 1
           /\ plan[k - 1] = [plan[k] EXCEPT !.sink = "discord"]
    /\ \A k \in 1..Attempted :
         ( /\ plan[k].sink = "discord"
           /\ plan[k].kind \in {"sub", "view"}
           /\ TwitterEnabledFor(plan[k])
           /\ (k < Attempted \/ pc # "notify") ) =>
           /\ k + 1 <= Attempted
           /\ plan[k + 1] = [plan[k] EXCEPT !.sink = "twitter"]

\* The step of the algorithm an event kind belongs to.
Rank(kind) ==
  CASE kind = "new"     -> 1
    [] kind = "removed" -> 2
    [] kind = "sub"     -> 3
    [] kind = "view"    -> 4

\* The candidates of step 3, channel by channel in fetched order and
\* threshold by threshold in configured order.
SubCandidates ==
  Concat([i \in 1..Len(curr_ch) |->
            [j \in 1..Len(cfg.subscriber_thresholds) |->
               <<curr_ch[i].channel_id, cfg.subscriber_thresholds[j]>>]])

\* The candidates of step 4, video by video in fetched order.
ViewCandidates ==
  Concat([i \in 1..Len(curr_vd) |->
            [j \in 1..Len(cfg.view_thresholds) |->
               <<curr_vd[i].video_id, cfg.view_thresholds[j]>>]])

\* The (id, threshold) pairs of the events of one kind, in dispatch order.
Dispatched(kind) ==
  LET IsEvent(m) == m.kind = kind /\ m.sink = "discord"
      s == SelectSeq(sent, IsEvent)
  IN  [k \in 1..Len(s) |-> <<s[k].id, s[k].thr>>]

RECURSIVE IsSubseq(_, _)
IsSubseq(s, t) ==
  IF s = <<>> THEN TRUE
  ELSE IF t = <<>> THEN FALSE
  ELSE IF Head(s) = Head(t) THEN IsSubseq(Tail(s), Tail(t))
  ELSE IsSubseq(s, Tail(t))

\* C14: in a STEADY cycle no event of a later step is dispatched before an
\* event of an earlier step (new, removed, subscriber, view); the Twitter
\* call of an event directly follows its Discord call, before the next
\* event; subscriber events follow the fetched channel order and the
\* configured threshold order, view events the fetched video order.
C14_StepOrdering ==
  mode = "STEADY" =>
    /\ \A k \in 1..Len(sent) : \A l \in 1..Len(sent) :
         k < l => Rank(sent[k].kind) <= Rank(sent[l].kind)
    /\ \A k \in 1..Len(sent) :
         sent[k].sink = "twitter" =>
           k > 1 /\ sent[k - 1] = [sent[k] EXCEPT !.sink = "discord"]
    /\ IsSubseq(Dispatched("sub"), SubCandidates)
    /\ IsSubseq(Dispatched("view"), ViewCandidates)

C14_Witness ==
  /\ pc = "done"
  /\ mode = "STEADY"
  /\ \A kind \in {"new", "removed", "sub", "view"} :
       \E k \in 1..Len(sent) : sent[k].kind = kind
  /\ \E k \in 1..Len(sent) : sent[k].sink = "twitter"
  /\ Len(Dispatched("sub")) >= 2

\* Position of a playlist in the configuration.
PlaylistIndex(pid) ==
  CHOOSE i \in 1..Len(cfg.playlists) : cfg.playlists[i].id = pid

\* C15: the snapshot file changes only in the one write step of a cycle,
\* which is taken after every planned notification has been dispatched and
\* ends the cycle; compare_and_notify starts only in a STEADY cycle, on the
\* snapshot that is on disk (the one the last completed write left) and on
\* videos fetched playlist by playlist in configured order; after the
\* write nothing is written again before the cycle returns.
C15_CyclePhaseOrder ==
  [][ /\ disk' # disk =>
           /\ pc \in {"save", "notify"}
           /\ nsent = Len(plan)
           /\ pc' \in {"done", "crashed_save"}
      /\ pc' = "notify" =>
           /\ mode' = "STEADY"
           /\ disk'.st = "ok"
           /\ prev'.channels = disk'.channels
           /\ prev'.videos = disk'.videos
           /\ plan' # plan => (pc = "idle" /\ nsent' = 0)
           /\ \A i \in 1..Len(curr_vd') : \A j \in 1..Len(curr_vd') :
                i < j => PlaylistIndex(curr_vd'[i].playlist_id)
                           <= PlaylistIndex(curr_vd'[j].playlist_id)
      /\ pc = "done" => (disk' = disk /\ pc' \in {"done", "idle"})
    ]_vars

C15_Witness ==
  /\ pc = "done"
  /\ mode = "STEADY"
  /\ nsent > 0
  /\ nsent = Len(plan)
  /\ disk.videos = curr_vd
  /\ prev.videos # curr_vd
  /\ \E i \in 1..Len(curr_vd) : \E j \in 1..Len(curr_vd) :
       curr_vd[i].playlist_id # curr_vd[j].playlist_id

\* C16: a cycle is INITIAL or STEADY, and which one depends only on the
\* snapshot on disk when it starts: STEADY exactly when the file parses
\* and one of its two lists is non-empty.  Only a STEADY cycle runs
\* compare_and_notify, and a STEADY cycle whose fetch completes does run it.
\* A cycle that completes leaves a non-empty snapshot on disk exactly when
\* it fetched something, so the cycle after it is then STEADY.
C16_ModeFromLoadedSnapshot ==
  /\ [](pc = "done" =>
          ((curr_ch # <<>> \/ curr_vd # <<>>) <=>
             (disk.st = "ok" /\ (disk.channels # <<>> \/ disk.videos # <<>>))))
  /\ [][ (pc = "idle" /\ pc' # "idle") =>
           /\ mode' \in {"INITIAL", "STEADY"}
           /\ mode' = "STEADY" <=>
                 (disk.st = "ok" /\ (disk.channels # <<>> \/ disk.videos # <<>>))
           /\ pc' = "notify" => mode' = "STEADY"
           /\ (mode' = "STEADY" /\ pc' # "crashed_fetch") => pc' = "notify"
       ]_vars

C16_Witness ==
  /\ pc = "notify"
  /\ mode = "STEADY"
  /\ prev.channels = <<>>
  /\ prev.videos # <<>>

\* C17: at most one execution of main is in progress; an execution starts
\* only when none is running, also when an hour mark passed meanwhile; and
\* before the direct call of main at process start nothing is due or
\* running, so the first cycle is that direct call.
C17_NoOverlappingCycles ==
  /\ [](/\ active <= 1
        /\ active = 1 <=> pc # "idle"
        /\ ~started => (~due /\ active = 0 /\ pc = "idle"))
  /\ [][ /\ active' > active => (active = 0 /\ pc = "idle" /\ (~started \/ due))
         /\ (due' /\ ~due) => (started /\ active' = active /\ pc' = pc)
     ]_vars

C17_Witness ==
  /\ active = 1
  /\ due
  /\ pc = "notify"
  /\ nsent > 0

\* The condition a notification was dispatched for, on the running cycle's
\* previous and fetched snapshots.
StillHolds(m) ==
  CASE m.kind = "new"     -> InCurrVideos(m.id) /\ ~InPrevVideos(m.id)
    [] m.kind = "removed" -> InPrevVideos(m.id) /\ ~InCurrVideos(m.id)
    [] m.kind = "sub"     ->
         \E i \in 1..Len(curr_ch) :
           /\ curr_ch[i].channel_id = m.id
           /\ prev_ch_map(prev, m.id) < m.thr
           /\ m.thr <= curr_ch[i].subscriber_count
           /\ m.sink = "twitter" => curr_ch[i].twitter_enabled
    [] m.kind = "view"    ->
         \E i \in 1..Len(curr_vd) :
           /\ curr_vd[i].video_id = m.id
           /\ prev_vid_map(prev, m.id) < m.thr
           /\ m.thr <= curr_vd[i].view_count
           /\ m.sink = "twitter" => curr_vd[i].twitter_enabled

\* C18: when a sink call raises, the snapshot file still holds the
\* previous snapshot of the interrupted cycle; and the next cycle that
\* gets to compare_and_notify plans again every call that had been made in
\* the interrupted cycle and whose condition holds on what it fetched.
C18_InterruptedCycleRedispatches ==
  /\ [](pc = "crashed_sink" =>
          /\ disk.st = "ok"
          /\ disk.channels = prev.channels
          /\ disk.videos = prev.videos)
  /\ [][ (pc = "idle" /\ redo # {} /\ pc' \notin {"idle", "crashed_fetch"}) =>
           /\ pc' = "notify"
           /\ \A m \in redo : StillHolds(m)' => \E k \in 1..Len(plan') : plan'[k] = m
     ]_vars

C18_Witness ==
  /\ pc = "notify"
  /\ redone
  /\ nsent = 0

\* C19: a cycle runs the INITIAL branch exactly when the snapshot it
\* loaded has no channel record and no video record; so the cycle after a
\* STEADY cycle that saved an empty snapshot is INITIAL again and makes no
\* sink call, whatever it fetches.
C19_InitialAfterEmptySteady ==
  /\ pc # "idle" =>
       /\ mode = "INITIAL" <=> (prev.channels = <<>> /\ prev.videos = <<>>)
       /\ mode = "STEADY" <=> (prev.channels # <<>> \/ prev.videos # <<>>)
  /\ (emptied /\ pc # "idle") =>
       /\ mode = "INITIAL"
       /\ plan = <<>>
       /\ nsent = 0
       /\ pc \notin {"notify", "crashed_sink"}

C19_Witness ==
  /\ emptied
  /\ pc = "done"
  /\ mode = "INITIAL"
  /\ \E i \in 1..Len(curr_vd) : curr_vd[i].view_count >= 1

\* C20: new-video and video-removed events go to Discord only; every
\* Twitter call of a cycle carries a subscriber or a view milestone.
C20_AddRemovePrimaryOnly ==
  \A k \in 1..Len(plan) :
    /\ plan[k].kind \in {"new", "removed"} => plan[k].sink = "discord"
    /\ plan[k].sink = "twitter" => plan[k].kind \in {"sub", "view"}

C20_Witness ==
  /\ pc = "done"
  /\ mode = "STEADY"
  /\ \E i \in 1..Len(curr_vd) :
       /\ curr_vd[i].twitter_enabled
       /\ ~InPrevVideos(curr_vd[i].video_id)
       /\ CountOf("new", curr_vd[i].video_id) = 1
  /\ \E n \in 1..Len(prev.videos) :
       /\ prev.videos[n].twitter_enabled
       /\ ~InCurrVideos(prev.videos[n].video_id)
       /\ CountOf("removed", prev.videos[n].video_id) = 1
  /\ \E k \in 1..Len(sent) : sent[k].sink = "twitter"

====
